---- MODULE Spec2Model ----
(***************************************************************************)
(* Model of hooks/Options.py of the Block Tales Manual world: the option   *)
(* classes created at module load, and the four hooks the host calls       *)
(* (before_options_defined, after_options_defined,                         *)
(* before_option_groups_created, after_option_groups_created).             *)
(***************************************************************************)
EXTENDS Integers, Sequences, FiniteSets, TLC

(***************************************************************************)
(* Bounds of the explored input space.                                     *)
(***************************************************************************)
\* hook calls explored after module load
MaxCalls == 2
\* target keys of after_options_defined that the input registry may lack
MaxMissing == 1
\* catalog keys the input registry may already bind to a host definition
MaxPrior == 1
\* host definitions of the input registry whose visibility is not "all"
MaxOdd == 1

(***************************************************************************)
(* Class statements.  A class body is a sequence of statements; a          *)
(* statement is either an assignment  name = value  or a bare annotation   *)
(* name: annotation  (which binds nothing in the class namespace).         *)
(***************************************************************************)
AssignInt(n, v) == [op |-> "assign", name |-> n, type |-> "int", int |-> v, str |-> ""]

AssignStr(n, s) == [op |-> "assign", name |-> n, type |-> "str", int |-> 0, str |-> s]

Annotate(n, s) == [op |-> "annotate", name |-> n, type |-> "str", int |-> 0, str |-> s]

\* index of the last statement of body that assigns name n with type t (0 if none)
RECURSIVE LastAssign(_, _, _, _)
LastAssign(body, n, t, i) ==
    IF i = 0 THEN 0
    ELSE IF body[i].op = "assign" /\ body[i].name = n /\ body[i].type = t THEN i
    ELSE LastAssign(body, n, t, i - 1)

AssignedNames(body, t) ==
    { body[i].name : i \in { j \in 1..Len(body) : body[j].op = "assign" /\ body[j].type = t } }

\* The class object a class statement creates: the namespace holds the
\* assigned names only; an annotation is recorded in __annotations__.
ClassCreate(name, base, body) ==
    [ name |-> name,
      base |-> base,
      ints |-> [ n \in AssignedNames(body, "int") |-> body[LastAssign(body, n, "int", Len(body))].int ],
      strs |-> [ n \in AssignedNames(body, "str") |-> body[LastAssign(body, n, "str", Len(body))].str ],
      annotations |-> [ n \in { body[i].name : i \in { j \in 1..Len(body) : body[j].op = "annotate" } } |->
                          body[CHOOSE i \in 1..Len(body) : body[i].op = "annotate" /\ body[i].name = n
                                 /\ \A j \in (i + 1)..Len(body) : ~(body[j].op = "annotate" /\ body[j].name = n)].str ] ]

(***************************************************************************)
(* Base classes of the host framework (module Options of the host), as     *)
(* far as the option kinds of the data model describe them.                *)
(***************************************************************************)
HostOption == ClassCreate("Option", "object", << AssignStr("visibility", "all") >>)

HostToggle == ClassCreate("Toggle", "Option", << AssignInt("default", 0) >>)

HostDefaultOnToggle == ClassCreate("DefaultOnToggle", "Toggle", << AssignInt("default", 1) >>)

HostChoice == ClassCreate("Choice", "Option", << AssignInt("default", 0) >>)

HostRange == ClassCreate("Range", "Option", << >>)

HostBases ==
    [ Option |-> HostOption, Toggle |-> HostToggle, DefaultOnToggle |-> HostDefaultOnToggle,
      Choice |-> HostChoice, Range |-> HostRange ]

(***************************************************************************)
(* The option classes of the module, lines 28-143.                         *)
(***************************************************************************)
\* variant: the upper bound left at 100
TotalCharactersToWinWith_wide ==
    ClassCreate("TotalCharactersToWinWith", "Range",
        << AssignStr("display_name", "Number of characters to beat the game with before victory"),
           AssignInt("range_start", 10),
           AssignInt("range_end", 100),
           AssignInt("default", 50) >>)

TotalCharactersToWinWith ==
    ClassCreate("TotalCharactersToWinWith", "Range",
        << AssignStr("display_name", "Number of characters to beat the game with before victory"),
           AssignInt("range_start", 10),
           AssignInt("range_end", 50),
           AssignInt("default", 50) >>)

SoloMode == ClassCreate("SoloMode", "Toggle", << Annotate("display_name", "Solo Mode") >>)

ISpyLogic == ClassCreate("ISpyLogic", "DefaultOnToggle", << Annotate("display_name", "I Spy Logic") >>)

Shopsanity == ClassCreate("Shopsanity", "Toggle", << Annotate("display_name", "Shopsanity") >>)

BUXShopHints == ClassCreate("BUXShopHints", "DefaultOnToggle", << Annotate("display_name", "BUX Shop Hints") >>)

Levelsanity == ClassCreate("Levelsanity", "DefaultOnToggle", << Annotate("display_name", "Levelsanity") >>)

Fishsanity == ClassCreate("Fishsanity", "DefaultOnToggle", << Annotate("display_name", "Fishsanity") >>)

Chatsanity == ClassCreate("Chatsanity", "Toggle", << Annotate("display_name", "Chatsanity") >>)

\* variant: the two codes of the pact exchanged
CAP_swapped ==
    ClassCreate("CAP", "Choice",
        << AssignInt("option_i_agree", 1),
           AssignInt("option_i_disagree", 0),
           Annotate("display_name", "CAP") >>)

CAP ==
    ClassCreate("CAP", "Choice",
        << AssignInt("option_i_agree", 0),
           AssignInt("option_i_disagree", 1),
           Annotate("display_name", "CAP") >>)

Cutscenesanity == ClassCreate("Cutscenesanity", "DefaultOnToggle", << Annotate("display_name", "Cutscenesanity") >>)

ThePit == ClassCreate("ThePit", "Toggle", << Annotate("display_name", "The Pit") >>)

DisablePostGoalContent ==
    ClassCreate("DisablePostGoalContent", "DefaultOnToggle",
        << Annotate("display_name", "Disable Post-Goal Content") >>)

SoulType ==
    ClassCreate("SoulType", "Choice",
        << AssignInt("option_pure", 0),
           AssignInt("option_dark", 1),
           Annotate("display_name", "Soul Type") >>)

\* the module namespace after the class statements have run
ModuleClasses ==
    [ TotalCharactersToWinWith |-> TotalCharactersToWinWith,
      SoloMode |-> SoloMode, ISpyLogic |-> ISpyLogic, Shopsanity |-> Shopsanity,
      BUXShopHints |-> BUXShopHints, Levelsanity |-> Levelsanity, Fishsanity |-> Fishsanity,
      Chatsanity |-> Chatsanity, CAP |-> CAP, Cutscenesanity |-> Cutscenesanity,
      ThePit |-> ThePit, DisablePostGoalContent |-> DisablePostGoalContent,
      SoulType |-> SoulType ]

ClassNames == DOMAIN ModuleClasses

(***************************************************************************)
(* Attribute lookup along the base-class chain.                            *)
(***************************************************************************)
Unset == [found |-> FALSE, int |-> 0, str |-> ""]

\* the classes a base name can denote: a class of the module or an imported base
HasClass(ns, n) == n \in DOMAIN ns \/ n \in DOMAIN HostBases

ClassNamed(ns, n) == IF n \in DOMAIN ns THEN ns[n] ELSE HostBases[n]

RECURSIVE GetInt(_, _, _)
GetInt(ns, cls, n) ==
    IF n \in DOMAIN cls.ints THEN [found |-> TRUE, int |-> cls.ints[n], str |-> ""]
    ELSE IF HasClass(ns, cls.base) THEN GetInt(ns, ClassNamed(ns, cls.base), n)
    ELSE Unset

RECURSIVE GetStr(_, _, _)
GetStr(ns, cls, n) ==
    IF n \in DOMAIN cls.strs THEN [found |-> TRUE, int |-> 0, str |-> cls.strs[n]]
    ELSE IF HasClass(ns, cls.base) THEN GetStr(ns, ClassNamed(ns, cls.base), n)
    ELSE Unset

(***************************************************************************)
(* Keys and references.                                                    *)
(***************************************************************************)
\* variant: the classes of two neighbouring lines exchanged
Writes_swapped ==
    << <<"solo_mode", "SoloMode">>,
       <<"i_spy_logic", "ISpyLogic">>,
       <<"shopsanity", "Shopsanity">>,
       <<"bux_shop_hints", "BUXShopHints">>,
       <<"levelsanity", "Levelsanity">>,
       <<"fishsanity", "Fishsanity">>,
       <<"chatsanity", "CAP">>,
       <<"cap", "Chatsanity">>,
       <<"cutscenesanity", "Cutscenesanity">>,
       <<"the_pit", "ThePit">>,
       <<"disable_postgoal_content", "DisablePostGoalContent">>,
       <<"soul_type", "SoulType">> >>

\* the keys written by before_options_defined, in the order of lines 147-158
Writes ==
    << <<"solo_mode", "SoloMode">>,
       <<"i_spy_logic", "ISpyLogic">>,
       <<"shopsanity", "Shopsanity">>,
       <<"bux_shop_hints", "BUXShopHints">>,
       <<"levelsanity", "Levelsanity">>,
       <<"fishsanity", "Fishsanity">>,
       <<"chatsanity", "Chatsanity">>,
       <<"cap", "CAP">>,
       <<"cutscenesanity", "Cutscenesanity">>,
       <<"the_pit", "ThePit">>,
       <<"disable_postgoal_content", "DisablePostGoalContent">>,
       <<"soul_type", "SoulType">> >>

\* the keys hidden by after_options_defined, in the order of lines 170-180
HideKeys ==
    << "co_op", "bux_shop", "shopsanity_currency", "pure_soul", "dark_soul",
       "pre_prologue", "prologue", "chapter1", "chapter2", "chapter3", "chapter4" >>

WrittenKeys == { Writes[i][1] : i \in 1..Len(Writes) }

HideKeySet == { HideKeys[i] : i \in 1..Len(HideKeys) }

\* the key of the one class of the module that no hook writes (line 26 is a comment)
UnwrittenKey == "total_characters_to_win_with"

CatalogKeys == WrittenKeys \cup {UnwrittenKey}

OtherKeys == {"unrelated_key"}

Keys == CatalogKeys \cup HideKeySet \cup OtherKeys

\* a registry value is a reference to a class object: one of this module, or
\* the host's own definition of a key (every key has a definition of its own)
ModRef(c) == [mod |-> "hooks", name |-> c]

HostRef(k) == [mod |-> "host", name |-> k]

NoBinding == [mod |-> "none", name |-> ""]

Refs == { ModRef(c) : c \in ClassNames } \cup { HostRef(k) : k \in Keys }

Visibilities == {"all", "none", "spoiler"}

(***************************************************************************)
(* Dictionary operations.                                                  *)
(***************************************************************************)
\* variant: d.setdefault(k, v), a prior binding wins
DictSet_setdefault(d, k, v) == IF d[k] = NoBinding THEN [d EXCEPT ![k] = v] ELSE d

\* variant: a key bound already is removed instead of written
DictSet_toggle(d, k, v) == IF d[k] = NoBinding THEN [d EXCEPT ![k] = v] ELSE [d EXCEPT ![k] = NoBinding]

\* variant: the write replaces the mapping by a fresh one holding only k
DictSet_fresh(d, k, v) == [ x \in DOMAIN d |-> IF x = k THEN v ELSE NoBinding ]

\* d[k] = v
DictSet(d, k, v) == [d EXCEPT ![k] = v]

\* d[k]: the value, or KeyError(k)
Lookup(d, k) ==
    IF d[k] = NoBinding THEN [kind |-> "KeyError", key |-> k, ref |-> NoBinding]
    ELSE [kind |-> "value", key |-> k, ref |-> d[k]]

KeysOf(d) == { k \in Keys : d[k] # NoBinding }

Return(obj) == [kind |-> "return", obj |-> obj, key |-> ""]

Raise(k) == [kind |-> "KeyError", obj |-> "", key |-> k]

(***************************************************************************)
(* State.                                                                  *)
(***************************************************************************)
VARIABLES
    classes,        \* module namespace: class name -> class object
    options,        \* the option registry (options / options.type_hints): key -> reference
    visibility,     \* the visibility attribute of every class object
    groups,         \* the dict of option groups the host passes to before_option_groups_created
    option_groups,  \* the list of option groups the host passes to after_option_groups_created
    ret,            \* outcome of the last hook call: returned object or propagated error
    trace,          \* the hooks called so far
    pre             \* registry, visibilities and groups as they were before the last call

vars == << classes, options, visibility, groups, option_groups, ret, trace, pre >>

Snapshot == [options |-> options, visibility |-> visibility, groups |-> groups, option_groups |-> option_groups]

RECURSIVE SubsetsUpTo(_, _)
SubsetsUpTo(S, n) ==
    IF n = 0 THEN {{}}
    ELSE LET prev == SubsetsUpTo(S, n - 1) IN prev \cup { x \cup {e} : x \in prev, e \in S }

GroupInputs ==
    { << >>,
      << [name |-> "Souls", members |-> <<"SoulType">>], [name |-> "Sanity", members |-> <<"Fishsanity", "Chatsanity">>] >> }

\* The registries the host may hold when it calls a hook: the target keys of
\* after_options_defined all defined but for a few (or none of them defined:
\* the empty registry), some catalog keys already bound to a definition of
\* the host, an unrelated key present or not.
InputShapes ==
    { sh \in [ missing : SubsetsUpTo(HideKeySet, MaxMissing) \cup {HideKeySet},
               prior : SubsetsUpTo(CatalogKeys, MaxPrior),
               other : SUBSET OtherKeys ] :
        sh.prior = {} \/ sh.missing \in {{}, HideKeySet} }

\* the definitions whose visibility the input may have set to another value
\* than "all": the first, a middle and the last target key and the unrelated
\* key, or the catalog keys the registry binds already
OddCandidates(sh) ==
    IF sh.prior = {} THEN {"co_op", "pure_soul", "chapter4"} \cup OtherKeys ELSE sh.prior

\* The state after module load, with the registry and the groups the host
\* holds at that point; the host builds its list of option groups from the
\* dict of groups.
Init ==
    /\ classes = ModuleClasses
    /\ \E sh \in InputShapes :
          LET present == (HideKeySet \ sh.missing) \cup sh.prior \cup sh.other IN
          /\ options = [ k \in Keys |-> IF k \in present THEN HostRef(k) ELSE NoBinding ]
          /\ \E odd \in SubsetsUpTo(present \cap OddCandidates(sh), MaxOdd) :
             \E v \in [odd -> Visibilities \ {"all"}] :
                visibility = [ r \in Refs |->
                    IF r.mod = "host" /\ r.name \in odd THEN v[r.name]
                    ELSE IF r.mod = "hooks" THEN GetStr(ModuleClasses, ModuleClasses[r.name], "visibility").str
                    ELSE "all" ]
    /\ groups \in GroupInputs
    /\ option_groups = groups
    /\ ret = Return("None")
    /\ trace = << >>
    /\ pre = Snapshot

\* the host calls hooks until start-up is over or an error has aborted it
Running == Len(trace) < MaxCalls /\ ret.kind # "KeyError"

(***************************************************************************)
(* before_options_defined, lines 146-159.                                  *)
(***************************************************************************)
RECURSIVE SetItems(_, _, _)
SetItems(d, writes, i) ==
    IF i > Len(writes) THEN d
    ELSE SetItems(DictSet(d, writes[i][1], ModRef(writes[i][2])), writes, i + 1)

before_options_defined ==
    /\ Running
    /\ options' = SetItems(options, Writes, 1)
    /\ ret' = Return("options")
    /\ pre' = Snapshot
    /\ trace' = Append(trace, "before_options_defined")
    /\ UNCHANGED << classes, visibility, groups, option_groups >>

(***************************************************************************)
(* after_options_defined, lines 162-181.                                   *)
(***************************************************************************)
\* variant: every definition of the registry is hidden, not only the listed keys
RECURSIVE HideFrom_everything(_, _, _, _)
HideFrom_everything(d, vis, keys, i) ==
    IF i > Len(keys)
    THEN [visibility |-> [ r \in DOMAIN vis |-> IF \E k \in DOMAIN d : d[k] = r THEN "none" ELSE vis[r] ],
          ret |-> Return("None")]
    ELSE LET found == Lookup(d, keys[i]) IN
         IF found.kind = "KeyError" THEN [visibility |-> vis, ret |-> Raise(found.key)]
         ELSE HideFrom_everything(d, [vis EXCEPT ![found.ref] = "none"], keys, i + 1)

\* variant: all-or-nothing, the keys are looked up before any is hidden
HideFrom_atomic(d, vis, keys, i) ==
    LET absent == { j \in i..Len(keys) : d[keys[j]] = NoBinding } IN
    IF absent # {}
    THEN [visibility |-> vis, ret |-> Raise(keys[CHOOSE j \in absent : \A l \in absent : j <= l])]
    ELSE [visibility |-> [ r \in DOMAIN vis |-> IF \E j \in i..Len(keys) : d[keys[j]] = r THEN "none" ELSE vis[r] ],
          ret |-> Return("None")]

\* options.type_hints[k].visibility = Visibility.none, statement by statement;
\* the first failing lookup raises and ends the call
RECURSIVE HideFrom(_, _, _, _)
HideFrom(d, vis, keys, i) ==
    IF i > Len(keys) THEN [visibility |-> vis, ret |-> Return("None")]
    ELSE LET found == Lookup(d, keys[i]) IN
         IF found.kind = "KeyError" THEN [visibility |-> vis, ret |-> Raise(found.key)]
         ELSE HideFrom(d, [vis EXCEPT ![found.ref] = "none"], keys, i + 1)

after_options_defined ==
    /\ Running
    /\ LET out == HideFrom(options, visibility, HideKeys, 1) IN
       /\ visibility' = out.visibility
       /\ ret' = out.ret
    /\ pre' = Snapshot
    /\ trace' = Append(trace, "after_options_defined")
    /\ UNCHANGED << classes, options, groups, option_groups >>

(***************************************************************************)
(* The group hooks, lines 184-189.                                         *)
(***************************************************************************)
\* variant: the hook adds a group of its own before returning the dict
before_option_groups_created_adds ==
    /\ Running
    /\ groups' = Append(groups, [name |-> "Block Tales", members |-> <<"SoloMode">>])
    /\ ret' = Return("groups")
    /\ pre' = Snapshot
    /\ trace' = Append(trace, "before_option_groups_created")
    /\ UNCHANGED << classes, options, visibility, option_groups >>

before_option_groups_created ==
    /\ Running
    /\ ret' = Return("groups")
    /\ pre' = Snapshot
    /\ trace' = Append(trace, "before_option_groups_created")
    /\ UNCHANGED << classes, options, visibility, groups, option_groups >>

after_option_groups_created ==
    /\ Running
    /\ ret' = Return("option_groups")
    /\ pre' = Snapshot
    /\ trace' = Append(trace, "after_option_groups_created")
    /\ UNCHANGED << classes, options, visibility, groups, option_groups >>

Next ==
    \/ before_options_defined
    \/ after_options_defined
    \/ before_option_groups_created
    \/ after_option_groups_created

Spec == Init /\ [][Next]_vars

Last == IF Len(trace) = 0 THEN "" ELSE trace[Len(trace)]

TypeOK ==
    /\ classes = ModuleClasses
    /\ options \in [Keys -> Refs \cup {NoBinding}]
    /\ visibility \in [Refs -> Visibilities]
    /\ Len(trace) <= MaxCalls

(***************************************************************************)
(* Reading a definition: what a lookup in the registry gives, and the      *)
(* kind, default and bounds or choices of a definition.                    *)
(***************************************************************************)
\* the label of an attribute that declares a choice (the host strips "option_")
OptionLabels ==
    [ option_i_agree |-> "i_agree", option_i_disagree |-> "i_disagree",
      option_pure |-> "pure", option_dark |-> "dark" ]

Choices(cls) == { << OptionLabels[n], cls.ints[n] >> : n \in DOMAIN cls.ints \cap DOMAIN OptionLabels }

\* the class object a reference denotes; a definition of the host is opaque
Deref(ns, ref) ==
    IF ref.mod = "hooks" THEN ns[ref.name] ELSE ClassCreate(ref.name, "Option", << >>)

Describe(ns, cls) ==
    [ kind |-> cls.base,
      default |-> GetInt(ns, cls, "default"),
      min |-> GetInt(ns, cls, "range_start"),
      max |-> GetInt(ns, cls, "range_end"),
      choices |-> Choices(cls) ]

Found(v) == [found |-> TRUE, int |-> v, str |-> ""]

ToggleRow == [kind |-> "Toggle", default |-> Found(0), min |-> Unset, max |-> Unset, choices |-> {}]

DefaultOnRow == [kind |-> "DefaultOnToggle", default |-> Found(1), min |-> Unset, max |-> Unset, choices |-> {}]

\* the table of section 4.1 of the specification
Table41 ==
    [ total_characters_to_win_with |->
          [kind |-> "Range", default |-> Found(50), min |-> Found(10), max |-> Found(50), choices |-> {}],
      solo_mode |-> ToggleRow,
      i_spy_logic |-> DefaultOnRow,
      shopsanity |-> ToggleRow,
      bux_shop_hints |-> DefaultOnRow,
      levelsanity |-> DefaultOnRow,
      fishsanity |-> DefaultOnRow,
      chatsanity |-> ToggleRow,
      cap |-> [kind |-> "Choice", default |-> Found(0), min |-> Unset, max |-> Unset,
               choices |-> { <<"i_agree", 0>>, <<"i_disagree", 1>> }],
      cutscenesanity |-> DefaultOnRow,
      the_pit |-> ToggleRow,
      disable_postgoal_content |-> DefaultOnRow,
      soul_type |-> [kind |-> "Choice", default |-> Found(0), min |-> Unset, max |-> Unset,
                     choices |-> { <<"pure", 0>>, <<"dark", 1>> }] ]

MatchesTable(k) ==
    /\ Lookup(options, k).kind = "value"
    /\ Describe(classes, Deref(classes, Lookup(options, k).ref)) = Table41[k]

Registered == Last = "before_options_defined"

Hidden == Last = "after_options_defined"

(***************************************************************************)
(* C1                                                                      *)
(***************************************************************************)
\* C1 as stated: after before_options_defined a lookup on each of the 13
\* catalog keys returns a definition whose kind, default and bounds or
\* choices equal the row of the table of section 4.1.
C1_AllThirteenKeysMatch == Registered => \A k \in DOMAIN Table41 : MatchesTable(k)

\* C1 amended: after before_options_defined a lookup on each of the 12 keys
\* the hook writes (every catalog key but total_characters_to_win_with)
\* returns a definition equal to its row of the table; the hook does not
\* write total_characters_to_win_with, whose binding (or absence) stays as
\* the input registry had it.
C1_WrittenKeysMatch ==
    Registered =>
        /\ \A k \in DOMAIN Table41 \ {UnwrittenKey} : MatchesTable(k)
        /\ options[UnwrittenKey] = pre.options[UnwrittenKey]

C1_Witness ==
    /\ Registered
    /\ Lookup(options, UnwrittenKey).kind = "KeyError"
    /\ Lookup(options, "cap").ref = ModRef("CAP")
    /\ Lookup(options, "solo_mode").ref = ModRef("SoloMode")

(***************************************************************************)
(* C2, C3                                                                  *)
(***************************************************************************)
VisOf(k) == visibility[options[k]]

PreVisOf(k) == pre.visibility[pre.options[k]]

AllTargetsDefined(d) == HideKeySet \subseteq KeysOf(d)

\* position in HideKeys of the first target key the registry d lacks
FirstMissing(d) ==
    CHOOSE i \in 1..Len(HideKeys) :
        /\ d[HideKeys[i]] = NoBinding
        /\ \A j \in 1..(i - 1) : d[HideKeys[j]] # NoBinding

\* C2: on a registry that contains all 11 target keys, after_options_defined
\* completes without error, leaves every one of the 11 hidden, and leaves
\* the registry and the visibility of every other key as they were.
C2_HideExactlyTargets ==
    (Hidden /\ AllTargetsDefined(pre.options)) =>
        /\ ret = Return("None")
        /\ options = pre.options
        /\ \A k \in HideKeySet : VisOf(k) = "none"
        /\ \A k \in KeysOf(options) \ HideKeySet : VisOf(k) = PreVisOf(k)

C2_Witness ==
    /\ Hidden
    /\ AllTargetsDefined(pre.options)
    /\ "unrelated_key" \in KeysOf(options)
    /\ VisOf("unrelated_key") = "spoiler"
    /\ PreVisOf("co_op") = "all"
    /\ VisOf("co_op") = "none"

\* C3: on a registry that lacks a target key, after_options_defined ends in
\* a KeyError naming the first missing key of the fixed order; the target
\* keys before it are hidden, the keys after it and the non-target keys keep
\* the visibility they had: the update is partial and not rolled back.
C3_PartialHideOnMissingKey ==
    (Hidden /\ ~AllTargetsDefined(pre.options)) =>
        LET m == FirstMissing(pre.options) IN
        /\ ret = Raise(HideKeys[m])
        /\ options = pre.options
        /\ \A i \in 1..(m - 1) : VisOf(HideKeys[i]) = "none"
        /\ \A i \in (m + 1)..Len(HideKeys) :
              HideKeys[i] \in KeysOf(options) => VisOf(HideKeys[i]) = PreVisOf(HideKeys[i])
        /\ \A k \in KeysOf(options) \ HideKeySet : VisOf(k) = PreVisOf(k)

C3_Witness ==
    /\ Hidden
    /\ ret = Raise("pure_soul")
    /\ PreVisOf("co_op") = "all"
    /\ VisOf("co_op") = "none"
    /\ VisOf("shopsanity_currency") = "none"
    /\ VisOf("chapter4") = "all"

(***************************************************************************)
(* C4, C5, C10                                                             *)
(***************************************************************************)
RegisteredTwice ==
    /\ Len(trace) >= 2
    /\ trace[Len(trace)] = "before_options_defined"
    /\ trace[Len(trace) - 1] = "before_options_defined"

\* C4: registering a second time changes nothing: the registry after
\* before_options_defined(before_options_defined(R)) has the key set and
\* the bindings of before_options_defined(R).
C4_RegisterIdempotent ==
    RegisteredTwice =>
        /\ KeysOf(options) = KeysOf(pre.options)
        /\ \A k \in Keys : options[k] = pre.options[k]

C4_Witness ==
    /\ RegisteredTwice
    /\ WrittenKeys \subseteq KeysOf(options)
    /\ ret = Return("options")

\* C5: before_options_defined never fails, whatever the registry binds
\* already, and afterwards every key it writes is bound to the class of this
\* module, not to the definition bound before.
C5_RegisterTotalOverwrites ==
    Registered =>
        /\ ret.kind = "return"
        /\ \A i \in 1..Len(Writes) :
              /\ options[Writes[i][1]] = ModRef(Writes[i][2])
              /\ Deref(classes, options[Writes[i][1]]) = classes[Writes[i][2]]

C5_Witness ==
    /\ Registered
    /\ pre.options["cap"] = HostRef("cap")
    /\ options["cap"] = ModRef("CAP")

\* C10: before_options_defined returns the mapping it was given, removes no
\* key, leaves every key it does not write bound as before, changes no
\* visibility, and the key set afterwards is the keys of R united with the
\* keys the hook writes.
C10_RegisterFrame ==
    Registered =>
        /\ ret = Return("options")
        /\ KeysOf(pre.options) \subseteq KeysOf(options)
        /\ KeysOf(options) = KeysOf(pre.options) \cup WrittenKeys
        /\ \A k \in Keys \ WrittenKeys : options[k] = pre.options[k]
        /\ visibility = pre.visibility

C10_Witness ==
    /\ Registered
    /\ pre.options["unrelated_key"] = HostRef("unrelated_key")
    /\ options["unrelated_key"] = HostRef("unrelated_key")
    /\ visibility[HostRef("unrelated_key")] = "spoiler"
    /\ "solo_mode" \notin KeysOf(pre.options)
    /\ "solo_mode" \in KeysOf(options)

(***************************************************************************)
(* C6, C7, C8                                                              *)
(***************************************************************************)
\* the display names written in the class bodies, lines 30-143
DisplayNames ==
    [ TotalCharactersToWinWith |-> "Number of characters to beat the game with before victory",
      SoloMode |-> "Solo Mode", ISpyLogic |-> "I Spy Logic", Shopsanity |-> "Shopsanity",
      BUXShopHints |-> "BUX Shop Hints", Levelsanity |-> "Levelsanity", Fishsanity |-> "Fishsanity",
      Chatsanity |-> "Chatsanity", CAP |-> "CAP", Cutscenesanity |-> "Cutscenesanity",
      ThePit |-> "The Pit", DisablePostGoalContent |-> "Disable Post-Goal Content",
      SoulType |-> "Soul Type" ]

\* C6: every option class of the catalog sets its display_name attribute
\* itself, to the name written in its body.
C6_DisplayNameSet ==
    \A c \in ClassNames :
        /\ "display_name" \in DOMAIN classes[c].strs
        /\ GetStr(classes, classes[c], "display_name") = [found |-> TRUE, int |-> 0, str |-> DisplayNames[c]]

\* C7: total_characters_to_win_with declares the bounds 10 and 50 and the
\* default 50, the default lies within the bounds, and 5 and 60 lie outside.
C7_RangeBounds ==
    LET c == classes["TotalCharactersToWinWith"]
        lo == GetInt(classes, c, "range_start")
        hi == GetInt(classes, c, "range_end")
        df == GetInt(classes, c, "default") IN
    /\ c.base = "Range"
    /\ lo = Found(10) /\ hi = Found(50) /\ df = Found(50)
    /\ lo.int <= df.int /\ df.int <= hi.int
    /\ 5 \notin lo.int..hi.int
    /\ 60 \notin lo.int..hi.int

C7_Witness ==
    /\ trace = << >>
    /\ {"range_start", "range_end", "default"} \subseteq DOMAIN classes["TotalCharactersToWinWith"].ints
    /\ options[UnwrittenKey] = HostRef(UnwrittenKey)

\* the label a Choice class resolves to when nothing is specified
DefaultLabels(cls) == { ch[1] : ch \in { x \in Choices(cls) : GetInt(classes, cls, "default") = Found(x[2]) } }

\* C8: each Choice class of the catalog defaults to code 0, one of its
\* declared codes: cap declares exactly i_agree = 0 and i_disagree = 1 and
\* defaults to i_agree, soul_type exactly pure = 0 and dark = 1 and
\* defaults to pure.
C8_ChoiceDefaults ==
    LET choice == { n \in ClassNames : classes[n].base = "Choice" } IN
    /\ choice = {"CAP", "SoulType"}
    /\ \A c \in choice :
          /\ GetInt(classes, classes[c], "default") = Found(0)
          /\ 0 \in { ch[2] : ch \in Choices(classes[c]) }
    /\ Choices(classes["CAP"]) = { <<"i_agree", 0>>, <<"i_disagree", 1>> }
    /\ DefaultLabels(classes["CAP"]) = {"i_agree"}
    /\ Choices(classes["SoulType"]) = { <<"pure", 0>>, <<"dark", 1>> }
    /\ DefaultLabels(classes["SoulType"]) = {"pure"}

C8_Witness ==
    /\ Registered
    /\ Deref(classes, options["cap"]).base = "Choice"
    /\ Deref(classes, options["soul_type"]).base = "Choice"
    /\ "default" \notin DOMAIN Deref(classes, options["cap"]).ints

(***************************************************************************)
(* C9                                                                      *)
(***************************************************************************)
\* the object a hook returned, as it is now
Returned ==
    IF ret.obj = "groups" THEN groups
    ELSE IF ret.obj = "option_groups" THEN option_groups
    ELSE << >>

\* C9: the two group hooks return the structure they were given, with the
\* same group names, members and order, and change neither the groups nor
\* the registry.
C9_GroupHooksIdentity ==
    /\ Last = "before_option_groups_created" =>
          /\ ret = Return("groups")
          /\ Returned = pre.groups
    /\ Last = "after_option_groups_created" =>
          /\ ret = Return("option_groups")
          /\ Returned = pre.option_groups
    /\ Last \in {"before_option_groups_created", "after_option_groups_created"} =>
          /\ groups = pre.groups
          /\ option_groups = pre.option_groups
          /\ options = pre.options
          /\ visibility = pre.visibility

C9_Witness ==
    /\ Len(trace) = 2
    /\ trace[1] = "before_option_groups_created"
    /\ trace[2] = "after_option_groups_created"
    /\ Len(groups) = 2
    /\ Len(option_groups) = 2
    /\ Returned = option_groups
====
